---- MODULE Spec2Model ----
(***************************************************************************)
(* Apartment Society Management API (src/main.py, src/schemas.py).         *)
(*                                                                         *)
(* The state is the content of the document store, one sequence of         *)
(* documents per collection, together with the last HTTP exchange (the     *)
(* handler that ran, its request and its response) and, for the            *)
(* interleaved specification, the position of every in-flight request.     *)
(*                                                                         *)
(* Values: strings are TLA+ strings, Python's None is the string None,     *)
(* datetimes are integers, a list of strings is a sequence of strings and  *)
(* a missing list is NoneList.  A request body is a record that holds      *)
(* exactly the fields the client sent.  An ObjectId is a sequence of 24    *)
(* nibbles; its string form is a sequence of 24 one-character strings.     *)
(***************************************************************************)
EXTENDS Integers, Sequences, FiniteSets, TLC

VARIABLES
    db,          \* collection name -> sequence of stored documents
    configured,  \* whether the process-wide storage handle `db` is not None
    nextId,      \* number of ObjectIds the store has generated so far
    last,        \* the last completed HTTP exchange: op, req, code, body
    procs        \* in-flight requests of the interleaved specification

vars == <<db, configured, nextId, last, procs>>

\* ------------------------------------------------------------------ bounds
MaxDocs == 2     \* documents the store may hold, over all collections
NumProcs == 2    \* requests that may be in flight at once

None == "<None>"
NoneList == <<None>>

Collections ==
    {"resident", "maintenancerequest", "payment", "notice", "asset",
     "reservation", "complaint", "document"}

Procs == 1..NumProcs
Clock == {1, 2}      \* readings of the wall clock (it need not be monotonic)

\* --------------------------------------------------------------- ObjectId
ObjectIdHexLen == 24

HexChars ==
    <<"0", "1", "2", "3", "4", "5", "6", "7", "8", "9", "a", "b", "c", "d", "e", "f">>
UpperHexChars == <<"A", "B", "C", "D", "E", "F">>

IsHexChar(c) ==
    \/ \E i \in DOMAIN HexChars : HexChars[i] = c
    \/ \E i \in DOMAIN UpperHexChars : UpperHexChars[i] = c

HexValue(c) ==
    IF \E i \in DOMAIN HexChars : HexChars[i] = c
    THEN (CHOOSE i \in DOMAIN HexChars : HexChars[i] = c) - 1
    ELSE (CHOOSE i \in DOMAIN UpperHexChars : UpperHexChars[i] = c) + 9

\* bson.ObjectId(s) accepts a str only when it is 24 hexadecimal characters.
ObjectIdValid(s) ==
    /\ Len(s) = ObjectIdHexLen
    /\ \A i \in DOMAIN s : IsHexChar(s[i])

ObjectIdParse(s) == [i \in 1..ObjectIdHexLen |-> HexValue(s[i])]

\* str(ObjectId): the 24 nibbles in lower-case hexadecimal.
ObjectIdStr(oid) == [i \in 1..ObjectIdHexLen |-> HexChars[oid[i] + 1]]

\* The n-th identifier the store generates; distinct n give distinct ids.
NewObjectId(n) == [i \in 1..ObjectIdHexLen |-> IF i = ObjectIdHexLen THEN n ELSE 0]

\* ------------------------------------------------------ entity definitions
MaintenanceRequestFields ==
    {"title", "description", "category", "status", "priority", "requested_by",
     "assigned_to", "apartment", "images"}
MaintenanceRequestRequired == {"title", "description", "requested_by"}
MaintenanceRequestDefaults ==
    [category |-> None, status |-> "open", priority |-> "medium",
     assigned_to |-> None, apartment |-> None, images |-> NoneList]

PaymentFields ==
    {"user_email", "amount", "purpose", "month", "status", "receipt_no", "remarks"}
PaymentRequired == {"user_email", "amount", "purpose"}
PaymentDefaults ==
    [month |-> None, status |-> "pending", receipt_no |-> None, remarks |-> None]

NoticeFields ==
    {"title", "body", "tags", "attachments", "posted_by", "pinned", "language"}
NoticeRequired == {"title", "body", "posted_by"}
NoticeDefaults ==
    [tags |-> NoneList, attachments |-> NoneList, pinned |-> FALSE, language |-> "en"]

AssetFields == {"name", "description", "rules"}
AssetRequired == {"name"}
AssetDefaults == [description |-> None, rules |-> None]

ReservationFields ==
    {"asset_name", "start_time", "end_time", "requested_by", "status", "purpose"}
ReservationRequired == {"asset_name", "start_time", "end_time", "requested_by"}
ReservationDefaults == [status |-> "pending", purpose |-> None]

ComplaintFields == {"message", "anonymous", "user_email", "status", "response"}
ComplaintRequired == {"message"}
ComplaintDefaults ==
    [anonymous |-> FALSE, user_email |-> None, status |-> "open", response |-> None]

DocumentFields == {"title", "url", "category", "uploaded_by"}
DocumentRequired == {"title", "url", "uploaded_by"}
DocumentDefaults == [category |-> None]

LoginPayloadDefaults == [name |-> None, apartment |-> None]

\* EmailStr: the address has a local part, an "@" and a domain.
EmailLocalPart(e) ==
    CASE e = "ann@x.org" -> "ann"
      [] e = "bob@x.org" -> "bob"
      [] OTHER -> e

EmailStrValid(e) == EmailLocalPart(e) # e

\* Construction of a model from a request body: every required field is there.
Validate(required, req) == required \subseteq DOMAIN req

ValidatePayment(req) ==
    /\ Validate(PaymentRequired, req)
    /\ EmailStrValid(req.user_email)

\* model_dump(): every declared field, the default where the body has none;
\* fields the model does not declare are ignored.
model_dump(fields, defaults, req) ==
    [f \in fields |-> IF f \in DOMAIN req THEN req[f] ELSE defaults[f]]

\* ----------------------------------------------------- persistence gateway
TotalDocs == Len(db.resident) + Len(db.maintenancerequest) + Len(db.payment)
             + Len(db.notice) + Len(db.asset) + Len(db.reservation)
             + Len(db.complaint) + Len(db.document)

\* create_document: the record with an identifier and a creation timestamp,
\* appended to the collection.
create_document(store, collection_name, data, id, now) ==
    [store EXCEPT ![collection_name] =
        Append(@, data @@ ("_id" :> id) @@ ("created_at" :> now))]

\* find_one: the position of the first document among the positions `hits`
\* of the documents that match the filter, 0 for None.
find_one(coll, hits) ==
    IF hits \cap DOMAIN coll = {}
    THEN 0
    ELSE CHOOSE i \in hits \cap DOMAIN coll : \A j \in hits \cap DOMAIN coll : i <= j

Respond(op, req, code, body) ==
    last' = [op |-> op, req |-> req, code |-> code, body |-> body]

IdBody(id) == [id |-> ObjectIdStr(id)]
Detail(msg) == [detail |-> msg]

\* ------------------------------------------------------------------- login
\* A lookup under the wrong key.
ResidentByName(doc, email) == doc.name = email

ResidentByEmail(doc, email) == doc.email = email

NewResident(payload) ==
    [name |-> IF payload.name \notin {None, ""} THEN payload.name
              ELSE EmailLocalPart(payload.email),
     email |-> payload.email,
     apartment |-> IF payload.apartment \notin {None, ""} THEN payload.apartment ELSE "",
     role |-> "resident",
     share_contact |-> FALSE]

LoginOk(payload) == [ok |-> TRUE, email |-> payload.email]

login(req) ==
    /\ UNCHANGED <<configured, procs>>
    /\ IF ~Validate({"email"}, req)
       THEN /\ Respond("login", req, 422, Detail("validation error"))
            /\ UNCHANGED <<db, nextId>>
       ELSE LET payload == model_dump({"email", "name", "apartment"},
                                      LoginPayloadDefaults, req)
                hits == {i \in DOMAIN db.resident :
                            ResidentByEmail(db.resident[i], payload.email)}
            IN  IF ~configured
                THEN /\ Respond("login", req, 500, Detail("Database not configured"))
                     /\ UNCHANGED <<db, nextId>>
                ELSE IF find_one(db.resident, hits) # 0
                THEN /\ Respond("login", req, 200, LoginOk(payload))
                     /\ UNCHANGED <<db, nextId>>
                ELSE /\ TotalDocs < MaxDocs
                     /\ \E now \in Clock :
                            db' = create_document(db, "resident", NewResident(payload),
                                                  NewObjectId(nextId + 1), now)
                     /\ nextId' = nextId + 1
                     /\ Respond("login", req, 200, LoginOk(payload))

\* ------------------------------------------------------------ reservations
\* A lookup that compares both bounds of the existing reservation with the
\* start of the new one.
ConflictQueryStartOnly(doc, r) ==
    /\ doc.asset_name = r.asset_name
    /\ doc.start_time < r.start_time
    /\ doc.end_time > r.start_time

\* A lookup with $lte / $gte: closed intervals.
ConflictQueryClosed(doc, r) ==
    /\ doc.asset_name = r.asset_name
    /\ doc.start_time <= r.end_time
    /\ doc.end_time >= r.start_time

\* The filter of the conflict lookup: same asset, existing.start < new.end
\* and existing.end > new.start.
ConflictQuery(doc, r) ==
    /\ doc.asset_name = r.asset_name
    /\ doc.start_time < r.end_time
    /\ doc.end_time > r.start_time

create_reservation(req) ==
    /\ UNCHANGED <<configured, procs>>
    /\ IF ~Validate(ReservationRequired, req)
       THEN /\ Respond("create_reservation", req, 422, Detail("validation error"))
            /\ UNCHANGED <<db, nextId>>
       ELSE LET r == model_dump(ReservationFields, ReservationDefaults, req)
                hits == {i \in DOMAIN db.reservation :
                            ConflictQuery(db.reservation[i], r)}
            IN  IF ~configured
                THEN /\ Respond("create_reservation", req, 500,
                                Detail("Database not configured"))
                     /\ UNCHANGED <<db, nextId>>
                ELSE IF find_one(db.reservation, hits) # 0
                THEN /\ Respond("create_reservation", req, 409,
                                Detail("Time slot conflicts with existing reservation"))
                     /\ UNCHANGED <<db, nextId>>
                ELSE /\ TotalDocs < MaxDocs
                     /\ \E now \in Clock :
                            db' = create_document(db, "reservation", r,
                                                  NewObjectId(nextId + 1), now)
                     /\ nextId' = nextId + 1
                     /\ Respond("create_reservation", req, 200,
                                IdBody(NewObjectId(nextId + 1)))

\* get_documents: the documents of the collection that match the filter, in an
\* order this layer does not fix: the set of the orders it may return them in.
get_documents(coll, hits) ==
    LET n == Cardinality(hits)
        orders == {f \in [1..n -> hits] : \A a, b \in 1..n : a # b => f[a] # f[b]}
    IN  {[k \in 1..n |-> coll[f[k]]] : f \in orders}

\* it["_id"] = str(it["_id"]) on every item of a list response.
Serialize(items) ==
    [k \in DOMAIN items |-> [items[k] EXCEPT !["_id"] = ObjectIdStr(@)]]

\* An equality filter {field: value} of a query.
FieldEq(doc, field, value) == field \in DOMAIN doc /\ doc[field] = value

\* `if param:` of a list handler: None and the empty string add no filter.
Given(param) == param \notin {None, ""}

\* A plain create handler: validate, insert, return the new id.
Create(op, collection_name, valid, data, req) ==
    /\ UNCHANGED <<configured, procs>>
    /\ IF ~valid
       THEN /\ Respond(op, req, 422, Detail("validation error"))
            /\ UNCHANGED <<db, nextId>>
       ELSE IF ~configured
       THEN /\ Respond(op, req, 500, Detail("Database not available"))
            /\ UNCHANGED <<db, nextId>>
       ELSE /\ TotalDocs < MaxDocs
            /\ \E now \in Clock :
                   db' = create_document(db, collection_name, data,
                                         NewObjectId(nextId + 1), now)
            /\ nextId' = nextId + 1
            /\ Respond(op, req, 200, IdBody(NewObjectId(nextId + 1)))

\* The bodies a list handler may return: the matching documents, serialized.
ListBodies(collection_name, hits) ==
    {Serialize(items) : items \in get_documents(db[collection_name], hits)}

\* A list handler: query, serialize, return.
List(op, req, bodies) ==
    /\ UNCHANGED <<db, configured, nextId, procs>>
    /\ IF ~configured
       THEN Respond(op, req, 500, Detail("Database not available"))
       ELSE \E body \in bodies : Respond(op, req, 200, body)

\* ------------------------------------------------------------- maintenance
create_ticket(req) ==
    Create("create_ticket", "maintenancerequest",
           Validate(MaintenanceRequestRequired, req),
           model_dump(MaintenanceRequestFields, MaintenanceRequestDefaults, req), req)

\* A filter that stores the requester under the wrong key.
TicketQueryEmailKey(doc, q) ==
    /\ Given(q.status) => FieldEq(doc, "status", q.status)
    /\ Given(q.email) => FieldEq(doc, "email", q.email)

TicketQuery(doc, q) ==
    /\ Given(q.status) => FieldEq(doc, "status", q.status)
    /\ Given(q.email) => FieldEq(doc, "requested_by", q.email)

list_tickets_bodies(q) ==
    ListBodies("maintenancerequest", {i \in DOMAIN db.maintenancerequest : TicketQuery(db.maintenancerequest[i], q)})

list_tickets(q) == List("list_tickets", q, list_tickets_bodies(q))

\* Query(..., pattern="^(open|in_progress|resolved|closed)$")
StatusPattern(status) == status \in {"open", "in_progress", "resolved", "closed"}

\* update_one({"_id": oid}, {"$set": {"status": ..., "updated_at": ...}})
SetStatus(doc, status, now) ==
    [f \in DOMAIN doc \cup {"status", "updated_at"} |->
        IF f = "status" THEN status ELSE IF f = "updated_at" THEN now ELSE doc[f]]

update_ticket_status(ticket_id, status) ==
    LET req == [ticket_id |-> ticket_id, status |-> status]
        coll == db.maintenancerequest
        hits == {i \in DOMAIN coll : coll[i]["_id"] = ObjectIdParse(ticket_id)}
    IN
    /\ UNCHANGED <<configured, nextId, procs>>
    /\ IF ~StatusPattern(status)
       THEN /\ Respond("update_ticket_status", req, 422, Detail("validation error"))
            /\ UNCHANGED db
       ELSE IF ~configured
       THEN /\ Respond("update_ticket_status", req, 500, Detail("Database not configured"))
            /\ UNCHANGED db
       ELSE IF ~ObjectIdValid(ticket_id)
       THEN \* bson.errors.InvalidId is not caught
            /\ Respond("update_ticket_status", req, 500, Detail("Internal Server Error"))
            /\ UNCHANGED db
       ELSE IF find_one(coll, hits) = 0
       THEN /\ Respond("update_ticket_status", req, 404, Detail("Ticket not found"))
            /\ UNCHANGED db
       ELSE /\ \E now \in Clock :
                   db' = [db EXCEPT !.maintenancerequest[find_one(coll, hits)] =
                             SetStatus(@, status, now)]
            /\ Respond("update_ticket_status", req, 200, [ok |-> TRUE])

\* ---------------------------------------------------------------- payments
create_payment(req) ==
    Create("create_payment", "payment", ValidatePayment(req),
           model_dump(PaymentFields, PaymentDefaults, req), req)

PaymentQuery(doc, q) ==
    /\ Given(q.email) => FieldEq(doc, "user_email", q.email)
    /\ Given(q.month) => FieldEq(doc, "month", q.month)
    /\ Given(q.status) => FieldEq(doc, "status", q.status)

list_payments_bodies(q) ==
    ListBodies("payment", {i \in DOMAIN db.payment : PaymentQuery(db.payment[i], q)})

list_payments(q) == List("list_payments", q, list_payments_bodies(q))

\* ----------------------------------------------------------------- notices
create_notice(req) ==
    Create("create_notice", "notice", Validate(NoticeRequired, req),
           model_dump(NoticeFields, NoticeDefaults, req), req)

\* {"pinned": {"$in": [True, False]}} and, with a tag, {"tags": {"$in": [tag]}}
NoticeQuery(doc, q) ==
    /\ "pinned" \in DOMAIN doc /\ doc.pinned \in {TRUE, FALSE}
    /\ Given(q.tag) =>
           /\ "tags" \in DOMAIN doc
           /\ doc.tags # NoneList
           /\ \E i \in DOMAIN doc.tags : doc.tags[i] = q.tag

\* i.get("created_at", datetime.min)
CreatedAtKey(doc) == IF "created_at" \in DOMAIN doc THEN doc.created_at ELSE 0

\* A sort without reverse=True.
SortOldestFirst(items) ==
    LET n == Len(items)
        Before(j, i) ==
            \/ CreatedAtKey(items[j]) < CreatedAtKey(items[i])
            \/ CreatedAtKey(items[j]) = CreatedAtKey(items[i]) /\ j < i
        pos(i) == 1 + Cardinality({j \in 1..n : Before(j, i)})
    IN  [k \in 1..n |-> items[CHOOSE i \in 1..n : pos(i) = k]]

\* items.sort(key=..., reverse=True): descending by key, items of equal key
\* keep the order they had.
SortNewestFirst(items) ==
    LET n == Len(items)
        Before(j, i) ==
            \/ CreatedAtKey(items[j]) > CreatedAtKey(items[i])
            \/ CreatedAtKey(items[j]) = CreatedAtKey(items[i]) /\ j < i
        pos(i) == 1 + Cardinality({j \in 1..n : Before(j, i)})
    IN  [k \in 1..n |-> items[CHOOSE i \in 1..n : pos(i) = k]]

list_notices_bodies(q) ==
    LET hits == {i \in DOMAIN db.notice : NoticeQuery(db.notice[i], q)}
    IN  {Serialize(SortNewestFirst(items)) : items \in get_documents(db.notice, hits)}

list_notices(q) == List("list_notices", q, list_notices_bodies(q))

\* ------------------------------------------------------------------ assets
create_asset(req) ==
    Create("create_asset", "asset", Validate(AssetRequired, req),
           model_dump(AssetFields, AssetDefaults, req), req)

list_assets_bodies == ListBodies("asset", DOMAIN db.asset)

list_assets == List("list_assets", <<>>, list_assets_bodies)

ReservationQuery(doc, q) ==
    /\ Given(q.asset) => FieldEq(doc, "asset_name", q.asset)
    /\ Given(q.email) => FieldEq(doc, "requested_by", q.email)

list_reservations_bodies(q) ==
    ListBodies("reservation", {i \in DOMAIN db.reservation : ReservationQuery(db.reservation[i], q)})

list_reservations(q) == List("list_reservations", q, list_reservations_bodies(q))

\* -------------------------------------------------------------- complaints
\* data = c.model_dump(); data.pop("user_email", None)
PopEmail(data) == [f \in DOMAIN data \ {"email"} |-> data[f]]

PopUserEmail(data) == [f \in DOMAIN data \ {"user_email"} |-> data[f]]

ComplaintData(c) == IF c.anonymous THEN PopUserEmail(c) ELSE c

create_complaint(req) ==
    Create("create_complaint", "complaint", Validate(ComplaintRequired, req),
           ComplaintData(model_dump(ComplaintFields, ComplaintDefaults, req)), req)

ComplaintQuery(doc, q) == Given(q.status) => FieldEq(doc, "status", q.status)

list_complaints_bodies(q) ==
    ListBodies("complaint", {i \in DOMAIN db.complaint : ComplaintQuery(db.complaint[i], q)})

list_complaints(q) == List("list_complaints", q, list_complaints_bodies(q))

\* --------------------------------------------------------------- documents
create_doc(req) ==
    Create("create_doc", "document", Validate(DocumentRequired, req),
           model_dump(DocumentFields, DocumentDefaults, req), req)

DocumentQuery(doc, q) == Given(q.category) => FieldEq(doc, "category", q.category)

list_docs_bodies(q) ==
    ListBodies("document", {i \in DOMAIN db.document : DocumentQuery(db.document[i], q)})

list_docs(q) == List("list_docs", q, list_docs_bodies(q))

\* ------------------------------------------------- interleaved handlers
\* A request handler runs its storage operations one after another; between
\* the lookup and the insert other requests may run.  procs[p] holds what the
\* handler of request p keeps between the two: the validated model, the result
\* of find_one, and (for the analysis) the number of documents the lookup saw.
reservation_lookup(p, req) ==
    /\ procs[p].pc = "idle"
    /\ configured
    /\ Validate(ReservationRequired, req)
    /\ LET r == model_dump(ReservationFields, ReservationDefaults, req)
           hits == {i \in DOMAIN db.reservation : ConflictQuery(db.reservation[i], r)}
       IN  procs' = [procs EXCEPT ![p] =
                        [pc |-> "reservation_checked", raw |-> req, req |-> r,
                         overlap |-> find_one(db.reservation, hits),
                         seen |-> Len(db.reservation)]]
    /\ UNCHANGED <<db, configured, nextId, last>>

\* A handler that drops the `if overlap: raise` of the conflict check.
reservation_finish_unchecked(p) ==
    /\ procs[p].pc = "reservation_checked"
    /\ procs' = [procs EXCEPT ![p] = [pc |-> "idle"]]
    /\ UNCHANGED configured
    /\ TotalDocs < MaxDocs
    /\ \E now \in Clock :
           db' = create_document(db, "reservation", procs[p].req,
                                 NewObjectId(nextId + 1), now)
    /\ nextId' = nextId + 1
    /\ Respond("create_reservation", procs[p].raw, 200, IdBody(NewObjectId(nextId + 1)))

reservation_finish(p) ==
    /\ procs[p].pc = "reservation_checked"
    /\ procs' = [procs EXCEPT ![p] = [pc |-> "idle"]]
    /\ UNCHANGED configured
    /\ IF procs[p].overlap # 0
       THEN /\ Respond("create_reservation", procs[p].raw, 409,
                       Detail("Time slot conflicts with existing reservation"))
            /\ UNCHANGED <<db, nextId>>
       ELSE /\ TotalDocs < MaxDocs
            /\ \E now \in Clock :
                   db' = create_document(db, "reservation", procs[p].req,
                                         NewObjectId(nextId + 1), now)
            /\ nextId' = nextId + 1
            /\ Respond("create_reservation", procs[p].raw, 200,
                       IdBody(NewObjectId(nextId + 1)))

login_lookup(p, req) ==
    /\ procs[p].pc = "idle"
    /\ configured
    /\ Validate({"email"}, req)
    /\ LET payload == model_dump({"email", "name", "apartment"},
                                 LoginPayloadDefaults, req)
           hits == {i \in DOMAIN db.resident :
                       ResidentByEmail(db.resident[i], payload.email)}
       IN  procs' = [procs EXCEPT ![p] =
                        [pc |-> "login_checked", raw |-> req, req |-> payload,
                         existing |-> find_one(db.resident, hits),
                         seen |-> Len(db.resident)]]
    /\ UNCHANGED <<db, configured, nextId, last>>

login_finish(p) ==
    /\ procs[p].pc = "login_checked"
    /\ procs' = [procs EXCEPT ![p] = [pc |-> "idle"]]
    /\ UNCHANGED configured
    /\ IF procs[p].existing # 0
       THEN /\ Respond("login", procs[p].raw, 200, LoginOk(procs[p].req))
            /\ UNCHANGED <<db, nextId>>
       ELSE /\ TotalDocs < MaxDocs
            /\ \E now \in Clock :
                   db' = create_document(db, "resident", NewResident(procs[p].req),
                                         NewObjectId(nextId + 1), now)
            /\ nextId' = nextId + 1
            /\ Respond("login", procs[p].raw, 200, LoginOk(procs[p].req))

\* ---------------------------------------------------------------- requests
Emails == {"ann@x.org", "bob@x.org"}
PlainLogin == "carol"    \* LoginPayload.email is a plain str: no "@" needed
Times == {1, 2, 3}

LoginRequests ==
    {[email |-> e] : e \in Emails}
    \cup {[email |-> e, name |-> n] : e \in Emails, n \in {"", "Ann B"}}
    \cup {[email |-> "ann@x.org", name |-> "Ann B", apartment |-> "A-302"],
          [email |-> PlainLogin],
          [name |-> "Ann B"]}

ReservationRequests ==
    {[asset_name |-> "gym", start_time |-> s, end_time |-> e, requested_by |-> "ann@x.org"] :
        s \in Times, e \in Times}
    \cup {[asset_name |-> "hall", start_time |-> 1, end_time |-> 3,
           requested_by |-> "ann@x.org"],
          [asset_name |-> "gym", start_time |-> 2, end_time |-> 3,
           requested_by |-> "bob@x.org", status |-> "approved"],
          [asset_name |-> "gym", start_time |-> 1, end_time |-> 2,
           requested_by |-> "bob@x.org", status |-> "on hold", purpose |-> "yoga"],
          [asset_name |-> "gym", start_time |-> 1]}

TicketBase(e) == [title |-> "Leak", description |-> "Tap drips", requested_by |-> e]

TicketRequests ==
    {TicketBase("ann@x.org"),
     TicketBase("ann@x.org") @@ [status |-> "done"],
     TicketBase("bob@x.org") @@ [priority |-> "asap"],
     [title |-> "Leak"]}

TicketQueries ==
    {[status |-> None, email |-> None],
     [status |-> "resolved", email |-> "ann@x.org"],
     [status |-> "open", email |-> ""]}

\* The first identifier the store hands out, one it never hands out, and
\* strings bson.ObjectId rejects.
TicketIds ==
    {ObjectIdStr(NewObjectId(1)),
     [i \in 1..ObjectIdHexLen |-> IF i = ObjectIdHexLen THEN "F" ELSE "0"],
     <<"a", "b", "c">>,
     [i \in 1..ObjectIdHexLen |-> IF i = 1 THEN "z" ELSE "0"]}

TicketStatuses == {"resolved", "done"}

PaymentBase == [user_email |-> "ann@x.org", amount |-> 100, purpose |-> "utility"]

PaymentRequests ==
    {PaymentBase,
     PaymentBase @@ [month |-> "2025-11", status |-> "success"],
     PaymentBase @@ [status |-> "refunded"],
     [user_email |-> "not-an-email", amount |-> 100, purpose |-> "fine"],
     [user_email |-> "ann@x.org"]}

NoticeBase == [title |-> "Water", body |-> "Shutdown at noon", posted_by |-> "office"]

NoticeRequests ==
    {NoticeBase,
     NoticeBase @@ [tags |-> <<"water">>],
     NoticeBase @@ [tags |-> <<"water", "lift">>, pinned |-> TRUE],
     NoticeBase @@ [pinned |-> TRUE],
     [title |-> "Water"]}

NoticeQueries == {[tag |-> t] : t \in {None, "water", "lift"}}

AssetRequests ==
    {[name |-> "gym"], [name |-> "hall", rules |-> "no shoes"], [rules |-> "no shoes"]}

ComplaintRequests ==
    {[message |-> "Noise"],
     [message |-> "Noise", user_email |-> "ann@x.org"],
     [message |-> "Noise", anonymous |-> TRUE],
     [message |-> "Noise", anonymous |-> TRUE, user_email |-> "ann@x.org"],
     [message |-> "Noise", anonymous |-> FALSE, user_email |-> "bob@x.org",
      status |-> "ignored"],
     [anonymous |-> TRUE]}

ComplaintQueries == {[status |-> st] : st \in {None, "open", "ignored"}}

DocumentBase == [title |-> "Bylaws", url |-> "http://x.org/b.pdf", uploaded_by |-> "office"]

DocumentRequests ==
    {DocumentBase, DocumentBase @@ [category |-> "bylaws"], [title |-> "Bylaws"]}

\* Requests of the interleaved specification.
ConcReservationRequests ==
    {[asset_name |-> "gym", start_time |-> t[1], end_time |-> t[2],
      requested_by |-> "ann@x.org"] : t \in {<<1, 2>>, <<2, 3>>, <<1, 3>>}}

ConcLoginRequests ==
    {[email |-> e] : e \in Emails} \cup {[email |-> "ann@x.org", name |-> "Ann B"]}

\* ---------------------------------------------------------- specifications
EmptyStore == [c \in Collections |-> <<>>]

Idle == [pc |-> "idle"]

Init ==
    /\ db = EmptyStore
    /\ configured \in BOOLEAN
    /\ nextId = 0
    /\ last = [op |-> "none", req |-> <<>>, code |-> 0, body |-> <<>>]
    /\ procs = [p \in Procs |-> Idle]

NextReservation ==
    \E req \in ReservationRequests : create_reservation(req)

SpecReservation == Init /\ [][NextReservation]_vars

NextLogin ==
    \E req \in LoginRequests : login(req)

SpecLogin == Init /\ [][NextLogin]_vars

NextMaintenance ==
    \/ \E req \in TicketRequests : create_ticket(req)
    \/ \E q \in TicketQueries : list_tickets(q)
    \/ \E id \in TicketIds, st \in TicketStatuses : update_ticket_status(id, st)

SpecMaintenance == Init /\ [][NextMaintenance]_vars

NextNotice ==
    \/ \E req \in NoticeRequests : create_notice(req)
    \/ \E q \in NoticeQueries : list_notices(q)

SpecNotice == Init /\ [][NextNotice]_vars

NextComplaint ==
    \/ \E req \in ComplaintRequests : create_complaint(req)
    \/ \E q \in ComplaintQueries : list_complaints(q)

SpecComplaint == Init /\ [][NextComplaint]_vars

\* Every handler, each request handled to completion before the next starts,
\* on a sample of the requests above.
SampleLoginRequests ==
    {[email |-> "ann@x.org"], [email |-> "ann@x.org", name |-> "Ann B"]}
SampleTicketRequests ==
    {TicketBase("ann@x.org"), TicketBase("ann@x.org") @@ [status |-> "done"]}
SampleTicketQueries == {[status |-> None, email |-> "ann@x.org"]}
SampleTicketIds == {ObjectIdStr(NewObjectId(1)), <<"a", "b", "c">>}
SamplePaymentQueries == {[email |-> "ann@x.org", month |-> "2025-11", status |-> None]}
SampleNoticeRequests == {NoticeBase, NoticeBase @@ [tags |-> <<"water">>, pinned |-> TRUE]}
SampleNoticeQueries == {[tag |-> "water"]}
SampleReservationRequests ==
    {[asset_name |-> "gym", start_time |-> t[1], end_time |-> t[2],
      requested_by |-> "ann@x.org"] : t \in {<<1, 2>>, <<1, 3>>}}
    \cup {[asset_name |-> "gym", start_time |-> 2, end_time |-> 3,
           requested_by |-> "bob@x.org", status |-> "approved", purpose |-> "yoga"]}
SampleReservationQueries == {[asset |-> "gym", email |-> None]}
SampleComplaintRequests ==
    {[message |-> "Noise"],
     [message |-> "Noise", anonymous |-> TRUE, user_email |-> "ann@x.org"],
     [message |-> "Noise", anonymous |-> FALSE, user_email |-> "bob@x.org",
      status |-> "ignored"]}
SampleComplaintQueries == {[status |-> "open"]}
SampleDocumentQueries == {[category |-> "bylaws"]}

Next ==
    \/ \E req \in SampleLoginRequests : login(req)
    \/ \E req \in SampleTicketRequests : create_ticket(req)
    \/ \E q \in SampleTicketQueries : list_tickets(q)
    \/ \E id \in SampleTicketIds : update_ticket_status(id, "resolved")
    \/ \E req \in PaymentRequests : create_payment(req)
    \/ \E q \in SamplePaymentQueries : list_payments(q)
    \/ \E req \in SampleNoticeRequests : create_notice(req)
    \/ \E q \in SampleNoticeQueries : list_notices(q)
    \/ \E req \in AssetRequests : create_asset(req)
    \/ list_assets
    \/ \E req \in SampleReservationRequests : create_reservation(req)
    \/ \E q \in SampleReservationQueries : list_reservations(q)
    \/ \E req \in SampleComplaintRequests : create_complaint(req)
    \/ \E q \in SampleComplaintQueries : list_complaints(q)
    \/ \E req \in DocumentRequests : create_doc(req)
    \/ \E q \in SampleDocumentQueries : list_docs(q)

Spec == Init /\ [][Next]_vars

\* Reservation requests whose storage steps interleave.
NextConcReservation ==
    \/ \E p \in Procs, req \in ConcReservationRequests : reservation_lookup(p, req)
    \/ \E p \in Procs : reservation_finish(p)

SpecConcReservation == Init /\ [][NextConcReservation]_vars

\* Login requests whose storage steps interleave.
NextConcLogin ==
    \/ \E p \in Procs, req \in ConcLoginRequests : login_lookup(p, req)
    \/ \E p \in Procs : login_finish(p)

SpecConcLogin == Init /\ [][NextConcLogin]_vars

\* ================================================================== claims
\* Two reservations overlap: a.start_time < b.end_time and a.end_time > b.start_time.
Overlap(a, b) == a.start_time < b.end_time /\ a.end_time > b.start_time

SameAssetOverlap(a, b) == a.asset_name = b.asset_name /\ Overlap(a, b)

OthersUnchanged(collection_name) ==
    \A c \in Collections \ {collection_name} : db'[c] = db[c]

\* C1: with create_reservation requests handled one at a time, no two stored
\* reservations of the same asset_name overlap, whatever the asset names,
\* times and status values of the requests.
C1_NoStoredOverlap ==
    \A i, j \in DOMAIN db.reservation :
        i # j => ~SameAssetOverlap(db.reservation[i], db.reservation[j])

\* C1 witness: two reservations of one asset are stored and a further,
\* conflicting request has just been rejected.
C1_Witness ==
    /\ \E i, j \in DOMAIN db.reservation :
           i # j /\ db.reservation[i].asset_name = db.reservation[j].asset_name
    /\ last.op = "create_reservation"
    /\ last.code = 409

\* C2: create_reservation answers 409 and inserts nothing exactly when some
\* stored reservation of the same asset has start_time < new.end_time and
\* end_time > new.start_time; otherwise it appends exactly the new reservation
\* and changes nothing else.
C2_Step ==
    (/\ configured
     /\ last'.op = "create_reservation"
     /\ ReservationRequired \subseteq DOMAIN last'.req)
    => LET new == last'.req
           n == Len(db.reservation)
           conflict ==
               \E i \in DOMAIN db.reservation :
                   /\ db.reservation[i].asset_name = new.asset_name
                   /\ db.reservation[i].start_time < new.end_time
                   /\ db.reservation[i].end_time > new.start_time
       IN  /\ (last'.code = 409) <=> conflict
           /\ conflict => db' = db
           /\ ~conflict =>
                  /\ last'.code = 200
                  /\ Len(db'.reservation) = n + 1
                  /\ SubSeq(db'.reservation, 1, n) = db.reservation
                  /\ \A f \in DOMAIN new : db'.reservation[n + 1][f] = new[f]
                  /\ ObjectIdStr(db'.reservation[n + 1]["_id"]) = last'.body.id
                  /\ OthersUnchanged("reservation")

C2_ConflictIffOverlap == [][C2_Step]_vars

\* C2 witness: a request that starts when a stored reservation of the same
\* asset ends has been accepted, next to a reservation of another asset.
C2_Witness ==
    /\ last.op = "create_reservation"
    /\ last.code = 200
    /\ \E i, j \in DOMAIN db.reservation :
           /\ db.reservation[i].asset_name = db.reservation[j].asset_name
           /\ db.reservation[i].start_time < db.reservation[i].end_time
           /\ db.reservation[i].end_time = db.reservation[j].start_time
           /\ db.reservation[j].start_time < db.reservation[j].end_time
           /\ ObjectIdStr(db.reservation[j]["_id"]) = last.body.id

\* C3: the lookup and the insert of create_reservation are separate steps: a
\* reservation a handler inserts can overlap a stored reservation of its asset
\* only when that one was inserted after the handler's lookup.
C3_Step ==
    \A p \in Procs :
        (/\ procs[p].pc = "reservation_checked"
         /\ procs'[p].pc = "idle"
         /\ Len(db'.reservation) = Len(db.reservation) + 1)
        => \A k \in DOMAIN db.reservation :
               SameAssetOverlap(db.reservation[k], db'.reservation[Len(db'.reservation)])
               => k > procs[p].seen

C3_OverlapOnlyByRace == [][C3_Step]_vars

\* C3 witness: two overlapping reservations of one asset are stored.
C3_Witness ==
    \E i, j \in DOMAIN db.reservation :
        i # j /\ SameAssetOverlap(db.reservation[i], db.reservation[j])

\* C4: logins handled one after another: a login with an email answers
\* {ok, email} and leaves exactly one resident with that email; the first one
\* appends it with role "resident" and share_contact false, a later one leaves
\* the whole store as it was.
C4_Step ==
    (/\ configured
     /\ last'.op = "login"
     /\ "email" \in DOMAIN last'.req)
    => LET e == last'.req.email
           n == Len(db.resident)
           before == {i \in DOMAIN db.resident : db.resident[i].email = e}
           after == {i \in DOMAIN db'.resident : db'.resident[i].email = e}
       IN  /\ last'.code = 200
           /\ last'.body = [ok |-> TRUE, email |-> e]
           /\ Cardinality(after) = 1
           /\ before # {} => db' = db
           /\ before = {} =>
                  /\ Len(db'.resident) = n + 1
                  /\ SubSeq(db'.resident, 1, n) = db.resident
                  /\ db'.resident[n + 1].email = e
                  /\ db'.resident[n + 1].role = "resident"
                  /\ db'.resident[n + 1].share_contact = FALSE
                  /\ OthersUnchanged("resident")

C4_LoginIdempotent == [][C4_Step]_vars

\* C4 witness: a resident created by a login without a name has logged in
\* again, this time with a name.
C4_Witness ==
    /\ last.op = "login"
    /\ last.code = 200
    /\ "name" \in DOMAIN last.req
    /\ last.req.name = "Ann B"
    /\ \E i \in DOMAIN db.resident :
           db.resident[i].email = last.req.email /\ db.resident[i].name = "ann"

\* C5: no stored complaint with anonymous = true has a user_email field, nor
\* has any such record of a list_complaints response; a complaint just created
\* holds every other field of its request.
C5_AnonymousHasNoEmail ==
    /\ \A i \in DOMAIN db.complaint :
           db.complaint[i].anonymous = TRUE => "user_email" \notin DOMAIN db.complaint[i]
    /\ (last.op = "list_complaints" /\ last.code = 200) =>
           \A k \in DOMAIN last.body :
               last.body[k].anonymous = TRUE => "user_email" \notin DOMAIN last.body[k]
    /\ (last.op = "create_complaint" /\ last.code = 200) =>
           LET d == db.complaint[Len(db.complaint)]
           IN  /\ ObjectIdStr(d["_id"]) = last.body.id
               /\ \A f \in DOMAIN last.req \ {"user_email"} : d[f] = last.req[f]

\* C5 witness: an anonymous complaint whose request carried a user_email has
\* been stored.
C5_Witness ==
    /\ last.op = "create_complaint"
    /\ last.code = 200
    /\ "anonymous" \in DOMAIN last.req
    /\ last.req.anonymous = TRUE
    /\ "user_email" \in DOMAIN last.req
    /\ last.req.user_email = "ann@x.org"

\* C6: update_ticket_status with a status outside the enumeration is rejected
\* and writes nothing; with an identifier that matches no stored ticket it
\* answers 404 and writes nothing.
C6_Step ==
    (/\ configured
     /\ last'.op = "update_ticket_status")
    => LET id == last'.req.ticket_id
           st == last'.req.status
           matches ==
               \E i \in DOMAIN db.maintenancerequest :
                   ObjectIdStr(db.maintenancerequest[i]["_id"]) = id
       IN  /\ st \notin {"open", "in_progress", "resolved", "closed"} =>
                  last'.code \notin {200, 404} /\ db' = db
           /\ (st \in {"open", "in_progress", "resolved", "closed"} /\ ~matches) =>
                  last'.code = 404 /\ db' = db

C6_UpdateErrors == [][C6_Step]_vars

\* C7: every stored enumerated field holds a value of its allowed set.
C7_StoredEnumsValid ==
    /\ \A i \in DOMAIN db.maintenancerequest :
           /\ db.maintenancerequest[i].status \in {"open", "in_progress", "resolved", "closed"}
           /\ db.maintenancerequest[i].priority \in {"low", "medium", "high", "urgent"}
    /\ \A i \in DOMAIN db.payment :
           db.payment[i].status \in {"pending", "success", "failed"}
    /\ \A i \in DOMAIN db.reservation :
           db.reservation[i].status \in {"pending", "approved", "rejected", "cancelled"}
    /\ \A i \in DOMAIN db.complaint :
           db.complaint[i].status \in {"open", "acknowledged", "responded", "closed"}

\* The filter value a caller derives from a field of the request it created
\* the record with: the field's value, no filter when the request had none.
FilterOf(req, field) == IF field \in DOMAIN req THEN req[field] ELSE None

TagFiltersOf(req) ==
    IF "tags" \in DOMAIN req /\ req.tags # NoneList
    THEN {req.tags[i] : i \in DOMAIN req.tags}
    ELSE {None}

\* The bodies the list endpoint of an entity may return right now, given
\* filters equal to the corresponding fields of the create request.
RoundTripBodies(op, req) ==
    CASE op = "create_ticket" ->
             list_tickets_bodies([status |-> FilterOf(req, "status"),
                                  email |-> FilterOf(req, "requested_by")])
      [] op = "create_payment" ->
             list_payments_bodies([email |-> FilterOf(req, "user_email"),
                                   month |-> FilterOf(req, "month"),
                                   status |-> FilterOf(req, "status")])
      [] op = "create_notice" ->
             UNION {list_notices_bodies([tag |-> t]) : t \in TagFiltersOf(req)}
      [] op = "create_asset" -> list_assets_bodies
      [] op = "create_reservation" ->
             list_reservations_bodies([asset |-> FilterOf(req, "asset_name"),
                                       email |-> FilterOf(req, "requested_by")])
      [] op = "create_complaint" ->
             list_complaints_bodies([status |-> FilterOf(req, "status")])
      [] op = "create_doc" ->
             list_docs_bodies([category |-> FilterOf(req, "category")])

CreateOps ==
    {"create_ticket", "create_payment", "create_notice", "create_asset",
     "create_reservation", "create_complaint", "create_doc"}

RoundTrip(fields) ==
    \A body \in RoundTripBodies(last.op, last.req) :
        \E k \in DOMAIN body :
            \A f \in fields : f \in DOMAIN body[k] /\ body[k][f] = last.req[f]

AnonymousComplaint ==
    /\ last.op = "create_complaint"
    /\ "anonymous" \in DOMAIN last.req
    /\ last.req.anonymous = TRUE

TagMatches(doc, tag) ==
    tag \in {None, ""} \/ (doc.tags # NoneList /\ \E i \in DOMAIN doc.tags : doc.tags[i] = tag)

\* C9: a list_notices response is ordered by created_at descending and holds
\* every stored notice that matches the tag filter exactly once, and no other.
C9_NewestFirst ==
    (last.op = "list_notices" /\ last.code = 200) =>
        LET body == last.body
        IN  /\ \A a, b \in DOMAIN body :
                   body[a].created_at > body[b].created_at => a < b
            /\ \A i \in DOMAIN db.notice :
                   Cardinality({k \in DOMAIN body :
                                   body[k]["_id"] = ObjectIdStr(db.notice[i]["_id"])})
                   = IF TagMatches(db.notice[i], last.req.tag) THEN 1 ELSE 0
            /\ \A k \in DOMAIN body :
                   \E i \in DOMAIN db.notice :
                       body[k] = [db.notice[i] EXCEPT !["_id"] = ObjectIdStr(@)]

\* C9 witness: a response lists a pinned and an unpinned notice, the one
\* stored later first.
C9_Witness ==
    /\ last.op = "list_notices"
    /\ last.code = 200
    /\ Len(last.body) = 2
    /\ last.body[1].created_at > last.body[2].created_at
    /\ last.body[1].pinned # last.body[2].pinned
    /\ last.body[1]["_id"] = ObjectIdStr(db.notice[2]["_id"])

\* C10: with login requests interleaved, the resident collection holds at
\* most one record per email.
C10_EmailUnique ==
    \A i, j \in DOMAIN db.resident :
        db.resident[i].email = db.resident[j].email => i = j
====
